---- MODULE Spec2Model ----
(***************************************************************************)
(* xlineparse: a Schema (python/xlineparse/__init__.py) wraps a native     *)
(* line parser.  The Python layer builds the Line descriptors from type    *)
(* declarations, hands the schema to the native parser as JSON, wraps the  *)
(* parser's errors and maps enum primitives back to enum members.  The     *)
(* native parser (tokenizer, dispatcher, field coercer, fast tag           *)
(* extractor) is modelled from the specification, sections 4.2 to 4.5.     *)
(*                                                                         *)
(* Text is a sequence of one-character strings.                            *)
(***************************************************************************)
EXTENDS Integers, Sequences, FiniteSets, TLC

VARIABLES
    args,              \* keyword arguments of Schema.from_type
    constructed,       \* Schema.__post_init__ has completed
    lines,             \* Schema.lines
    enum_conversions,  \* Schema._enum_conversions (a defaultdict)
    arg,               \* the line handed to the last call, as the caller wrote it
    parser,            \* Schema._parser: the schema the native parser was built with
    parsed,            \* outcome of the last Schema.parse_line call
    first              \* outcome of the last Schema.parse_first call

vars == <<args, constructed, lines, parser, enum_conversions, arg, parsed, first>>

\* Largest number of field tokens on a line drawn by InitPure
MaxFields == 2
\* Largest number of field tokens on a line passed to a call under Spec
MaxCallFields == 2
\* Largest number of fractional digits of a token drawn by InitDecimal
MaxFracDigits == 3
\* Largest round_decimal_places of a Schema drawn by InitDecimal
MaxPlaces == 3

DELIM == "|"
QUOTE == "\""
NEWLINE == "\n"

SeqsUpTo(S, n) == UNION {[1..k -> S] : k \in 0..n}

(***************************************************************************)
(* Python values.  One record shape for all of them, so that any two       *)
(* values can be compared.                                                 *)
(***************************************************************************)
PyNone == [t |-> "none", s |-> <<>>, n |-> 0, e |-> 0, c |-> "-", m |-> "-"]
PyStr(x) == [t |-> "str", s |-> x, n |-> 0, e |-> 0, c |-> "-", m |-> "-"]
PyInt(k) == [t |-> "int", s |-> <<>>, n |-> k, e |-> 0, c |-> "-", m |-> "-"]
PyMember(cls, name) == [t |-> "member", s |-> <<>>, n |-> 0, e |-> 0, c |-> cls, m |-> name]
\* decimal.Decimal: the coefficient n and the exponent e, the value n * 10^e
PyDecimal(n, e) == [t |-> "decimal", s |-> <<>>, n |-> n, e |-> e, c |-> "-", m |-> "-"]

\* The enum classes of the test module: name -> value of each member
FooEnum == [A |-> PyStr(<<"A">>), B |-> PyStr(<<"B">>)]
BarEnum == [ONE |-> PyInt(1), TWO |-> PyInt(2)]

EnumClass(cls) == IF cls = "FooEnum" THEN FooEnum ELSE BarEnum

EnumNames == {"FooEnum", "BarEnum"}

\* {field.value for field in cls}
EnumValues(cls) == {EnumClass(cls)[k] : k \in DOMAIN EnumClass(cls)}

\* cls._value2member_map_[v]; a missing key is a KeyError
value2member(cls, v) ==
    IF v \in EnumValues(cls)
    THEN [ok |-> TRUE,
          v |-> PyMember(cls, CHOOSE k \in DOMAIN EnumClass(cls) : EnumClass(cls)[k] = v)]
    ELSE [ok |-> FALSE, v |-> PyNone]

(***************************************************************************)
(* Field descriptors and the declarative surface                           *)
(***************************************************************************)
\* One record shape for all of them: cls is left "-" by the fields that are
\* not enum fields, the last three None by those that are not DecimalFields
Field(kind, cls, places, lo, hi) ==
    [kind |-> kind, required |-> TRUE, cls |-> cls,
     round_decimal_places |-> places, min_value |-> lo, max_value |-> hi]

NoField == Field("NONE", "-", PyNone, PyNone, PyNone)
StrField == Field("STR", "-", PyNone, PyNone, PyNone)
IntField == Field("INT", "-", PyNone, PyNone, PyNone)
StrEnumField(cls) == Field("STR_ENUM", cls, PyNone, PyNone, PyNone)
IntEnumField(cls) == Field("INT_ENUM", cls, PyNone, PyNone, PyNone)
\* DecimalField(round_decimal_places=places, min_value=lo, max_value=hi)
DecimalField(places, lo, hi) == Field("DECIMAL", "-", places, lo, hi)

\* A field type as the caller declares it: base, base | None, Annotated[base, ann]
T(base) == [base |-> base, optional |-> FALSE, ann |-> NoField]
Opt(base) == [base |-> base, optional |-> TRUE, ann |-> NoField]
Annotated(base, field) == [base |-> base, optional |-> FALSE, ann |-> field]

\* field_type_to_field without its last step
DefaultField(t) ==
    IF t.ann # NoField THEN t.ann
    ELSE IF t.base = "str" THEN StrField
    ELSE IF t.base = "int" THEN IntField
    ELSE IF t.base = "Decimal" THEN DecimalField(PyNone, PyNone, PyNone)
    ELSE IF t.base \in EnumNames
         THEN IF \A v \in EnumValues(t.base) : v.t = "str" THEN StrEnumField(t.base)
              ELSE IF \A v \in EnumValues(t.base) : v.t = "int" THEN IntEnumField(t.base)
              ELSE Field("NotImplementedError", t.base, PyNone, PyNone, PyNone)
    ELSE Field("RuntimeError", "-", PyNone, PyNone, PyNone)

\* A plausible slip: the Union branch forgets required = False
field_type_to_field_NoOptional(t) == DefaultField(t)

field_type_to_field(t) == [DefaultField(t) EXCEPT !.required = ~t.optional]

\* tuple[Literal[name], t1, ..., tn]
LineType(name, types) == [name |-> name, types |-> types]

convert_line_type(t) ==
    [name |-> t.name,
     fields |-> [i \in 1..Len(t.types) |-> field_type_to_field(t.types[i])]]

\* A plausible slip: the union members are taken in reverse
from_type_lines_Reversed(t) ==
    [i \in 1..Len(t) |-> convert_line_type(t[Len(t) + 1 - i])]

\* Schema.from_type: t is the sequence of the union's tuple types
from_type_lines(t) == [i \in 1..Len(t) |-> convert_line_type(t[i])]

(***************************************************************************)
(* What Schema.__post_init__ hands to the native parser                    *)
(***************************************************************************)
DigitChar(k) == SubSeq(<<"0", "1", "2", "3", "4", "5", "6", "7", "8", "9">>, k + 1, k + 1)

RECURSIVE Digits(_)
\* The decimal digits of a natural number
Digits(k) == IF k < 10 THEN DigitChar(k) ELSE Digits(k \div 10) \o DigitChar(k % 10)

Zeros(k) == [i \in 1..k |-> "0"]

\* f"{d:f}": the sign, then the coefficient written out in full with the
\* point -e digits from its end; never an exponent
FormatF(n, e) ==
    LET ds == Digits(IF n < 0 THEN 0 - n ELSE n)
        padded == IF Len(ds) <= 0 - e THEN Zeros(1 - e - Len(ds)) \o ds ELSE ds
        body == IF e >= 0 THEN (IF n = 0 THEN ds ELSE ds \o Zeros(e))
                ELSE SubSeq(padded, 1, Len(padded) + e) \o <<".">>
                     \o SubSeq(padded, Len(padded) + e + 1, Len(padded))
    IN (IF n < 0 THEN <<"-">> ELSE <<>>) \o body

decimal_to_str(d) == IF d = PyNone THEN PyNone ELSE PyStr(FormatF(d.n, d.e))

\* A slip: DecimalField.as_dict leaves round_decimal_places out
Field_as_dict_NoPlaces(f) ==
    [kind |-> f.kind,
     required |-> f.required,
     values |-> IF f.kind \in {"STR_ENUM", "INT_ENUM"} THEN EnumValues(f.cls) ELSE {},
     round_decimal_places |-> PyNone,
     min_value |-> decimal_to_str(f.min_value),
     max_value |-> decimal_to_str(f.max_value)]

\* The as_dict of each field class: an enum field carries the values of its
\* class, a DecimalField its places and its bounds as text
Field_as_dict(f) ==
    [kind |-> f.kind,
     required |-> f.required,
     values |-> IF f.kind \in {"STR_ENUM", "INT_ENUM"} THEN EnumValues(f.cls) ELSE {},
     round_decimal_places |-> f.round_decimal_places,
     min_value |-> decimal_to_str(f.min_value),
     max_value |-> decimal_to_str(f.max_value)]

Line_as_dict(l) ==
    [name |-> l.name, fields |-> [i \in 1..Len(l.fields) |-> Field_as_dict(l.fields[i])]]

\* A plausible slip: trailing_delimiter is left out and takes its default
jsonable_NoTrailing(a, ls) ==
    [delimiter |-> a.delimiter,
     quote_str |-> a.quote_str,
     trailing_delimiter |-> FALSE,
     coerce_empty_quoted |-> a.coerce_empty_quoted,
     lines |-> [i \in 1..Len(ls) |-> Line_as_dict(ls[i])]]

\* A plausible slip: quote_str is left out and takes its default
jsonable_NoQuote(a, ls) ==
    [delimiter |-> a.delimiter,
     quote_str |-> PyNone,
     trailing_delimiter |-> a.trailing_delimiter,
     coerce_empty_quoted |-> a.coerce_empty_quoted,
     lines |-> [i \in 1..Len(ls) |-> Line_as_dict(ls[i])]]

jsonable(a, ls) ==
    [delimiter |-> a.delimiter,
     quote_str |-> a.quote_str,
     trailing_delimiter |-> a.trailing_delimiter,
     coerce_empty_quoted |-> a.coerce_empty_quoted,
     lines |-> [i \in 1..Len(ls) |-> Line_as_dict(ls[i])]]

(***************************************************************************)
(* The native parser                                                       *)
(***************************************************************************)
\* Delimiter and quote must each be one character and must differ.  The
\* parser reports it from parse_line: test_errors builds such a Schema and
\* gets a LineParseError, which only Schema.parse_line raises.
ConfigError(schema) ==
    \/ Len(schema.delimiter) # 1
    \/ /\ schema.quote_str # PyNone
       /\ \/ Len(schema.quote_str.s) # 1
          \/ schema.quote_str.s = schema.delimiter

\* The quote character, "" when none is configured
QuoteChar(schema) == IF schema.quote_str = PyNone THEN "" ELSE schema.quote_str.s[1]

StripNewline(s) ==
    IF Len(s) > 0 /\ s[Len(s)] = NEWLINE THEN SubSeq(s, 1, Len(s) - 1) ELSE s

Token(text, quoted) == [text |-> text, quoted |-> quoted]

TokFail == [ok |-> FALSE, toks |-> <<>>]

RECURSIVE ScanPlain(_, _, _, _, _, _)
RECURSIVE ScanQuoted(_, _, _, _, _, _)
RECURSIVE ScanToken(_, _, _, _, _)

\* At a token boundary: position i of s starts a token (i = Len(s) + 1: an
\* empty last token)
ScanToken(s, i, d, q, acc) ==
    IF q # "" /\ i <= Len(s) /\ s[i] = q
    THEN ScanQuoted(s, i + 1, d, q, acc, <<>>)
    ELSE ScanPlain(s, i, d, q, acc, <<>>)

\* An unquoted token is taken verbatim up to the next delimiter
ScanPlain(s, i, d, q, acc, cur) ==
    IF i > Len(s) THEN [ok |-> TRUE, toks |-> Append(acc, Token(cur, FALSE))]
    ELSE IF s[i] = d THEN ScanToken(s, i + 1, d, q, Append(acc, Token(cur, FALSE)))
    ELSE ScanPlain(s, i + 1, d, q, acc, Append(cur, s[i]))

\* Inside a quoted span: a doubled quote is one literal quote, the delimiter
\* is inert, the span must close before the line ends and a delimiter or the
\* end of the line must follow it
ScanQuoted(s, i, d, q, acc, cur) ==
    IF i > Len(s) THEN TokFail
    ELSE IF s[i] # q THEN ScanQuoted(s, i + 1, d, q, acc, Append(cur, s[i]))
    ELSE IF i + 1 <= Len(s) /\ s[i + 1] = q
         THEN ScanQuoted(s, i + 2, d, q, acc, Append(cur, q))
    ELSE IF i + 1 > Len(s) THEN [ok |-> TRUE, toks |-> Append(acc, Token(cur, TRUE))]
    ELSE IF s[i + 1] = d THEN ScanToken(s, i + 2, d, q, Append(acc, Token(cur, TRUE)))
    ELSE TokFail

\* Section 4.2, step 4: the extra empty position is consumed
TrailingPolicy(schema, r) ==
    IF ~r.ok \/ ~schema.trailing_delimiter THEN r
    ELSE IF Len(r.toks) >= 2 /\ r.toks[Len(r.toks)] = Token(<<>>, FALSE)
         THEN [ok |-> TRUE, toks |-> SubSeq(r.toks, 1, Len(r.toks) - 1)]
    ELSE TokFail

Tokenize(schema, line) ==
    TrailingPolicy(schema,
        ScanToken(StripNewline(line), 1, schema.delimiter[1], QuoteChar(schema), <<>>))

\* Section 4.3: the candidates by tag and arity, in declaration order
Candidates(schema, toks) ==
    {k \in 1..Len(schema.lines) :
        /\ schema.lines[k].name = toks[1].text
        /\ Len(schema.lines[k].fields) = Len(toks) - 1}

\* The selected Line Descriptor's index, 0 when none matches
Dispatch(schema, toks) ==
    LET c == Candidates(schema, toks)
    IN IF c = {} THEN 0 ELSE CHOOSE k \in c : \A j \in c : k <= j

DigitChars == {"0", "1", "2", "3", "4", "5", "6", "7", "8", "9"}

DigitVal(ch) ==
    CASE ch = "0" -> 0 [] ch = "1" -> 1 [] ch = "2" -> 2 [] ch = "3" -> 3
      [] ch = "4" -> 4 [] ch = "5" -> 5 [] ch = "6" -> 6 [] ch = "7" -> 7
      [] ch = "8" -> 8 [] OTHER -> 9

RECURSIVE DigitsValue(_)
DigitsValue(ds) ==
    IF ds = <<>> THEN 0
    ELSE 10 * DigitsValue(SubSeq(ds, 1, Len(ds) - 1)) + DigitVal(ds[Len(ds)])

\* Base-10 signed integer: optional sign, then digits only
ParseInt(text) ==
    LET signed == Len(text) > 0 /\ text[1] \in {"+", "-"}
        ds == IF signed THEN SubSeq(text, 2, Len(text)) ELSE text
    IN IF ds = <<>> \/ \E i \in 1..Len(ds) : ds[i] \notin DigitChars
       THEN [ok |-> FALSE, v |-> 0]
       ELSE [ok |-> TRUE,
             v |-> IF signed /\ text[1] = "-" THEN 0 - DigitsValue(ds) ELSE DigitsValue(ds)]

\* Exact decimal as a scaled integer: optional sign, digits, and after a
\* point more digits; the value is n * 10^e
ParseDecimal(text) ==
    LET signed == Len(text) > 0 /\ text[1] \in {"+", "-"}
        body == IF signed THEN SubSeq(text, 2, Len(text)) ELSE text
        dots == {i \in 1..Len(body) : body[i] = "."}
        dot == IF dots = {} THEN Len(body) + 1 ELSE CHOOSE i \in dots : \A j \in dots : i <= j
        whole == SubSeq(body, 1, dot - 1)
        frac == SubSeq(body, dot + 1, Len(body))
        ds == whole \o frac
    IN IF \/ whole = <<>>
          \/ (dots # {} /\ frac = <<>>)
          \/ \E i \in 1..Len(ds) : ds[i] \notin DigitChars
       THEN [ok |-> FALSE, n |-> 0, e |-> 0]
       ELSE [ok |-> TRUE,
             n |-> IF signed /\ text[1] = "-" THEN 0 - DigitsValue(ds) ELSE DigitsValue(ds),
             e |-> 0 - Len(frac)]

\* Section 4.4: round to k fractional digits, a half going away from zero
RoundDecimal(d, k) ==
    IF 0 - d.e <= k THEN d
    ELSE LET unit == 10^(0 - d.e - k)
             mag == IF d.n < 0 THEN 0 - d.n ELSE d.n
             up == IF 2 * (mag % unit) >= unit THEN 1 ELSE 0
             m == (mag \div unit) + up
         IN [ok |-> TRUE, n |-> IF d.n < 0 THEN 0 - m ELSE m, e |-> 0 - k]

\* Exact comparison of two scaled integers: a <= b
DecimalLe(a, b) ==
    LET e == IF a.e < b.e THEN a.e ELSE b.e
    IN a.n * 10^(a.e - e) <= b.n * 10^(b.e - e)

CoerceFail == [ok |-> FALSE, v |-> PyNone]
CoerceOk(v) == [ok |-> TRUE, v |-> v]

\* Section 4.4, Decimal: parse, round when places are set, then the inclusive
\* bounds on the rounded value
CoerceDecimal(f, tok) ==
    LET p == ParseDecimal(tok.text)
        v == IF f.round_decimal_places = PyNone THEN p
             ELSE RoundDecimal(p, f.round_decimal_places.n)
    IN IF ~p.ok THEN CoerceFail
       ELSE IF f.min_value # PyNone /\ ~DecimalLe(ParseDecimal(f.min_value.s), v)
            THEN CoerceFail
       ELSE IF f.max_value # PyNone /\ ~DecimalLe(v, ParseDecimal(f.max_value.s))
            THEN CoerceFail
       ELSE CoerceOk(PyDecimal(v.n, v.e))

\* Section 4.4: the shared emptiness rule
CoerceEmpty(schema, f, tok) ==
    IF ~f.required
    THEN IF f.kind = "STR" /\ tok.quoted /\ schema.coerce_empty_quoted
         THEN CoerceOk(PyStr(<<>>))
         ELSE CoerceOk(PyNone)
    ELSE IF f.kind = "STR" THEN CoerceOk(PyStr(<<>>)) ELSE CoerceFail

\* Section 4.4: per-kind coercion of a non-empty token
CoerceValue(f, tok) ==
    IF f.kind = "STR" THEN CoerceOk(PyStr(tok.text))
    ELSE IF f.kind = "STR_ENUM"
         THEN IF PyStr(tok.text) \in f.values THEN CoerceOk(PyStr(tok.text)) ELSE CoerceFail
    ELSE IF f.kind = "DECIMAL" THEN CoerceDecimal(f, tok)
    ELSE LET p == ParseInt(tok.text)
         IN IF ~p.ok THEN CoerceFail
            ELSE IF f.kind = "INT_ENUM" /\ PyInt(p.v) \notin f.values THEN CoerceFail
            ELSE CoerceOk(PyInt(p.v))

Coerce(schema, f, tok) ==
    IF tok.text = <<>> THEN CoerceEmpty(schema, f, tok) ELSE CoerceValue(f, tok)

NativeFail(cause) == [ok |-> FALSE, rec |-> <<>>, cause |-> cause]

\* Parser.parse_line: the record, or a ValueError with its cause
NativeParseLine(schema, line) ==
    IF ConfigError(schema) THEN NativeFail("config")
    ELSE LET r == Tokenize(schema, line)
         IN IF ~r.ok THEN NativeFail("tokenization")
            ELSE LET k == Dispatch(schema, r.toks)
                 IN IF k = 0 THEN NativeFail("dispatch")
                    ELSE LET fs == schema.lines[k].fields
                             vs == [i \in 1..Len(fs) |-> Coerce(schema, fs[i], r.toks[i + 1])]
                         IN IF \E i \in 1..Len(fs) : ~vs[i].ok THEN NativeFail("coercion")
                            ELSE [ok |-> TRUE,
                                  rec |-> <<PyStr(r.toks[1].text)>>
                                          \o [i \in 1..Len(fs) |-> vs[i].v],
                                  cause |-> "-"]

RECURSIVE FirstPlain(_, _, _, _)
FirstPlain(s, i, d, cur) ==
    IF i > Len(s) \/ s[i] = d THEN [ok |-> TRUE, rec |-> <<PyStr(cur)>>, cause |-> "-"]
    ELSE FirstPlain(s, i + 1, d, Append(cur, s[i]))

RECURSIVE FirstQuoted(_, _, _, _)
FirstQuoted(s, i, q, cur) ==
    IF i > Len(s) THEN NativeFail("tokenization")
    ELSE IF s[i] # q THEN FirstQuoted(s, i + 1, q, Append(cur, s[i]))
    ELSE IF i + 1 <= Len(s) /\ s[i + 1] = q THEN FirstQuoted(s, i + 2, q, Append(cur, q))
    ELSE [ok |-> TRUE, rec |-> <<PyStr(cur)>>, cause |-> "-"]

\* Parser.parse_first, section 4.5: the first token only, unquoted
NativeParseFirst(schema, line) ==
    LET s == StripNewline(line)
        q == QuoteChar(schema)
    IN IF q # "" /\ Len(s) >= 1 /\ s[1] = q
       THEN FirstQuoted(s, 2, q, <<>>)
       ELSE FirstPlain(s, 1, schema.delimiter[1], <<>>)

(***************************************************************************)
(* Schema: the Python layer                                                *)
(***************************************************************************)
\* A dict is a function; its items are kept in insertion order
EmptyDict == [k \in {} |-> <<>>]

\* defaultdict(dict).__getitem__: a missing key is inserted with an empty dict
defaultdict_getitem(conv, key) ==
    [k \in DOMAIN conv \cup {key} |-> IF k \in DOMAIN conv THEN conv[k] ELSE <<>>]

\* d[i] = field on an inner dict: items are <<i, field>> pairs
dict_setitem(items, i, f) ==
    IF \E k \in 1..Len(items) : items[k].i = i
    THEN [k \in 1..Len(items) |-> IF items[k].i = i THEN [i |-> i, field |-> f] ELSE items[k]]
    ELSE Append(items, [i |-> i, field |-> f])

RECURSIVE AddFields(_, _, _, _)
\* for i, field in enumerate(line.fields, start=1)
AddFields(conv, name, fields, i) ==
    IF i > Len(fields) THEN conv
    ELSE IF fields[i].kind \in {"STR_ENUM", "INT_ENUM"}
         THEN LET c1 == defaultdict_getitem(conv, name)
              IN AddFields([c1 EXCEPT ![name] = dict_setitem(@, i, fields[i])],
                           name, fields, i + 1)
    ELSE AddFields(conv, name, fields, i + 1)

RECURSIVE AddLines(_, _, _)
\* for line in self.lines
AddLines(conv, ls, k) ==
    IF k > Len(ls) THEN conv
    ELSE AddLines(AddFields(conv, ls[k].name, ls[k].fields, 1), ls, k + 1)

\* The enum conversion map Schema.__post_init__ sets up
post_init_enum_conversions(ls) == AddLines(EmptyDict, ls, 1)

NoOutcome == [kind |-> "none", rec |-> <<>>, line |-> <<>>, cause |-> "-"]
Returned(rec) == [kind |-> "ok", rec |-> rec, line |-> <<>>, cause |-> "-"]
Raised(kind, line, cause) == [kind |-> kind, rec |-> <<>>, line |-> line, cause |-> cause]

RECURSIVE rstrip(_)
\* line.rstrip("\n")
rstrip(s) ==
    IF Len(s) > 0 /\ s[Len(s)] = NEWLINE THEN rstrip(SubSeq(s, 1, Len(s) - 1)) ELSE s

RECURSIVE ConvertItems(_, _, _)
\* for i, converter in enum_conversion.items(): parsed_mut[i] is rec[i + 1]
ConvertItems(rec, items, k) ==
    IF k > Len(items) THEN Returned(rec)
    ELSE IF items[k].i + 1 > Len(rec) THEN Raised("IndexError", <<>>, "enum")
    ELSE IF rec[items[k].i + 1] = PyNone THEN ConvertItems(rec, items, k + 1)
    ELSE LET m == value2member(items[k].field.cls, rec[items[k].i + 1])
         IN IF ~m.ok THEN Raised("KeyError", <<>>, "enum")
            ELSE ConvertItems([rec EXCEPT ![items[k].i + 1] = m.v], items, k + 1)

\* A slip that would give parsing a memory: the tag's converters are popped
Schema_parse_line_Pop(p, conv, line) ==
    LET r == NativeParseLine(p, line)
    IN IF ~r.ok
       THEN [out |-> Raised("LineParseError", rstrip(line), r.cause), conv |-> conv]
       ELSE IF DOMAIN conv # {}
            THEN LET conv1 == defaultdict_getitem(conv, r.rec[1].s)
                 IN [out |-> ConvertItems(r.rec, conv1[r.rec[1].s], 1),
                     conv |-> [k \in DOMAIN conv \ {r.rec[1].s} |-> conv[k]]]
            ELSE [out |-> Returned(r.rec), conv |-> conv]

\* Schema.parse_line: the outcome and the enum conversion map it leaves
Schema_parse_line(p, conv, line) ==
    LET r == NativeParseLine(p, line)
    IN IF ~r.ok
       THEN [out |-> Raised("LineParseError", rstrip(line), r.cause), conv |-> conv]
       ELSE IF DOMAIN conv # {}
            THEN LET conv1 == defaultdict_getitem(conv, r.rec[1].s)
                 IN [out |-> ConvertItems(r.rec, conv1[r.rec[1].s], 1), conv |-> conv1]
            ELSE [out |-> Returned(r.rec), conv |-> conv]

\* A slip: the tag is taken from the raw text up to the first delimiter
Schema_parse_first_Raw(p, line) ==
    LET r == FirstPlain(StripNewline(line), 1, DELIM, <<>>)
    IN Returned(r.rec)

\* Schema.parse_first: the native call, its ValueError passed on as it is
Schema_parse_first(p, line) ==
    LET r == NativeParseFirst(p, line)
    IN IF r.ok THEN Returned(r.rec) ELSE Raised("ValueError", <<>>, r.cause)

(***************************************************************************)
(* Lines as callers write them                                             *)
(***************************************************************************)
RECURSIVE Double(_)
\* Every quote character of the text written twice
Double(text) ==
    IF text = <<>> THEN <<>>
    ELSE (IF text[1] = QUOTE THEN <<QUOTE, QUOTE>> ELSE <<text[1]>>) \o Double(Tail(text))

Piece(text, mode) == [text |-> text, mode |-> mode]

\* A token's spelling: verbatim, or between quotes with its quotes doubled
Spell(p) ==
    IF p.mode = "quoted" THEN <<QUOTE>> \o Double(p.text) \o <<QUOTE>> ELSE p.text

RECURSIVE SpellFields(_)
SpellFields(ps) ==
    IF ps = <<>> THEN <<>> ELSE <<DELIM>> \o Spell(ps[1]) \o SpellFields(Tail(ps))

\* The text of a line: tag, fields, an optional extra delimiter, an optional newline
LineOf(a) ==
    Spell(a.tag) \o SpellFields(a.fields)
        \o (IF a.trail THEN <<DELIM>> ELSE <<>>)
        \o (IF a.nl THEN <<NEWLINE>> ELSE <<>>)

TagPieces ==
    {Piece(<<"a">>, "plain"), Piece(<<"a">>, "quoted"), Piece(<<"b">>, "plain"),
     Piece(<<QUOTE>>, "plain")}

FieldPieces ==
    {Piece(x, "plain") : x \in {<<>>, <<"A">>, <<"1">>, <<QUOTE>>}}
    \cup {Piece(x, "quoted") : x \in {<<>>, <<"A">>, <<DELIM>>, <<QUOTE>>}}

Inputs ==
    [tag : TagPieces, fields : SeqsUpTo(FieldPieces, MaxFields),
     trail : BOOLEAN, nl : BOOLEAN]

CallTagPieces == {Piece(<<"a">>, "plain"), Piece(<<"b">>, "plain"), Piece(<<QUOTE>>, "plain")}

CallFieldPieces == {Piece(x, "plain") : x \in {<<>>, <<"A">>, <<"1">>}}

CallInputs ==
    [tag : CallTagPieces, fields : SeqsUpTo(CallFieldPieces, MaxCallFields),
     trail : {FALSE}, nl : {FALSE}]

\* Decimal tokens: an optional minus, one whole digit and up to
\* MaxFracDigits fractional digits, the 2.00001 of test_decimal_rounding and
\* a token that is no number
WholeDigits == {"1", "2", "3"}
FracDigits == {"0", "4", "5"}

DecimalTexts ==
    {sign \o <<w>> \o frac :
        sign \in {<<>>, <<"-">>}, w \in WholeDigits,
        frac \in {<<>>} \cup {<<".">> \o f : f \in SeqsUpTo(FracDigits, MaxFracDigits) \ {<<>>}}}
    \cup {<<"2", ".", "0", "0", "0", "0", "1">>, <<"A">>}

DecimalInputs ==
    [tag : {Piece(<<"a">>, "plain")}, fields : {<<Piece(x, "plain")>> : x \in DecimalTexts},
     trail : {FALSE}, nl : {FALSE}]

(***************************************************************************)
(* The schemas: those of the test module, over the tags "a" and "b"        *)
(***************************************************************************)
Args(d, q, trailing, coerce, t) ==
    [delimiter |-> d, quote_str |-> q, trailing_delimiter |-> trailing,
     coerce_empty_quoted |-> coerce, t |-> t]

A(types) == LineType(<<"a">>, types)
B(types) == LineType(<<"b">>, types)
Q1 == PyStr(<<QUOTE>>)

SchemaArgs ==
    { Args(<<DELIM>>, PyNone, FALSE, FALSE, <<A(<<T("int")>>)>>),
      Args(<<DELIM, DELIM>>, PyNone, FALSE, FALSE, <<A(<<T("int")>>)>>),
      Args(<<DELIM>>, PyStr(<<QUOTE, QUOTE>>), FALSE, FALSE, <<A(<<T("int")>>)>>),
      Args(<<DELIM>>, PyNone, TRUE, FALSE, <<A(<<T("int")>>)>>),
      Args(<<DELIM>>, PyNone, TRUE, FALSE, <<A(<<Opt("int"), Opt("int")>>)>>),
      Args(<<DELIM>>, Q1, TRUE, FALSE, <<A(<<T("str")>>), A(<<T("str"), Opt("int")>>)>>),
      Args(<<DELIM>>, Q1, FALSE, FALSE, <<A(<<T("str")>>), A(<<T("str"), T("str")>>)>>),
      Args(<<DELIM>>, Q1, FALSE, FALSE, <<A(<<Opt("str")>>), B(<<T("str"), Opt("int")>>)>>),
      Args(<<DELIM>>, Q1, FALSE, TRUE, <<A(<<Opt("str")>>), B(<<Opt("int"), Opt("FooEnum")>>)>>),
      Args(<<DELIM>>, PyNone, FALSE, FALSE, <<A(<<T("str")>>), A(<<Opt("str"), T("int")>>)>>),
      Args(<<DELIM>>, PyNone, FALSE, FALSE,
           <<A(<<T("FooEnum"), Opt("FooEnum")>>), B(<<T("BarEnum")>>)>>),
      Args(<<DELIM>>, PyNone, FALSE, FALSE, <<A(<<T("FooEnum")>>), B(<<T("int")>>)>>),
      Args(<<DELIM>>, PyNone, FALSE, FALSE, <<A(<<T("int"), T("FooEnum")>>), A(<<T("int")>>)>>),
      Args(<<DELIM>>, PyNone, FALSE, FALSE, <<A(<<T("int")>>), A(<<T("str")>>), A(<<>>)>>) }

\* _simple_schema(Annotated[Decimal, DecimalField(...)]): the bounds of
\* test_decimal_constraints, a pair of bounds on each side of zero and a
\* bound written with an exponent, as in test_big_decimal
DecimalBounds ==
    { <<PyNone, PyNone>>,
      <<PyDecimal(20, -1), PyNone>>,
      <<PyNone, PyDecimal(20, -1)>>,
      <<PyDecimal(15, -1), PyDecimal(20, -1)>>,
      <<PyDecimal(-20, -1), PyDecimal(-15, -1)>>,
      <<PyNone, PyDecimal(1, 1)>> }

DecimalPlaces == {PyNone} \cup {PyInt(k) : k \in 0..MaxPlaces}

DecimalSchemaArgs ==
    {Args(<<DELIM>>, PyNone, FALSE, FALSE,
          <<A(<<Annotated("Decimal", DecimalField(k, b[1], b[2]))>>)>>) :
        k \in DecimalPlaces, b \in DecimalBounds}
    \cup {Args(<<DELIM>>, PyNone, FALSE, FALSE, <<A(<<T("Decimal")>>)>>)}

(***************************************************************************)
(* The state machine                                                       *)
(***************************************************************************)
NoParser == jsonable(Args(<<>>, PyNone, FALSE, FALSE, <<>>), <<>>)

FirstInput == [tag |-> Piece(<<"a">>, "plain"), fields |-> <<>>, trail |-> FALSE, nl |-> FALSE]

InitOver(schemas, inputs) ==
    /\ args \in schemas
    /\ constructed = FALSE
    /\ lines = <<>>
    /\ parser = NoParser
    /\ enum_conversions = EmptyDict
    /\ arg \in inputs
    /\ parsed = NoOutcome
    /\ first = NoOutcome

\* Schema.from_type: the lines, then the dataclass's __post_init__.  Building
\* the native parser does not fail on a malformed delimiter or quote: in
\* test_errors the failure is a LineParseError, raised by parse_line alone.
Construct ==
    /\ ~constructed
    /\ LET ls == from_type_lines(args.t)
       IN /\ lines' = ls
          /\ parser' = jsonable(args, ls)
          /\ enum_conversions' = post_init_enum_conversions(ls)
    /\ constructed' = TRUE
    /\ UNCHANGED <<args, arg, parsed, first>>

\* schema.parse_line(LineOf(a))
parse_line(a) ==
    /\ constructed
    /\ LET r == Schema_parse_line(parser, enum_conversions, LineOf(a))
       IN /\ parsed' = r.out
          /\ enum_conversions' = r.conv
    /\ arg' = a
    /\ first' = IF a = arg THEN first ELSE NoOutcome
    /\ UNCHANGED <<args, constructed, lines, parser>>

\* schema.parse_first(LineOf(a)).  The tests fix what a Schema with a malformed
\* delimiter or quote does in parse_line only, so parse_first is followed on
\* well-formed settings.
parse_first(a) ==
    /\ constructed
    /\ ~ConfigError(parser)
    /\ first' = Schema_parse_first(parser, LineOf(a))
    /\ arg' = a
    /\ parsed' = IF a = arg THEN parsed ELSE NoOutcome
    /\ UNCHANGED <<args, constructed, lines, parser, enum_conversions>>

ParseLineCall == \E a \in CallInputs : parse_line(a)
ParseFirstCall == \E a \in CallInputs : parse_first(a)
ParseLineArg == parse_line(arg)
ParseFirstArg == parse_first(arg)

\* One Schema, any sequence of calls on it
InitWith(inputs) == InitOver(SchemaArgs, inputs)

Init == InitWith({FirstInput})
Next == Construct \/ ParseLineCall \/ ParseFirstCall
Spec == Init /\ [][Next]_vars

\* One Schema and one line: the two entry points applied to it
InitPure == InitWith(Inputs)
NextPure == Construct \/ ParseLineArg \/ ParseFirstArg
SpecPure == InitPure /\ [][NextPure]_vars

\* One Schema with a Decimal field and one line with a decimal token
InitDecimal == InitOver(DecimalSchemaArgs, DecimalInputs)
SpecDecimal == InitDecimal /\ [][NextPure]_vars

(***************************************************************************)
(* Properties                                                              *)
(***************************************************************************)
TheLine == LineOf(arg)

\* The Schema as Schema.from_type leaves it
FreshLines == from_type_lines(args.t)
FreshParser == jsonable(args, FreshLines)
FreshConversions == post_init_enum_conversions(FreshLines)

\* The settings the caller asked for
QuoteOn == args.quote_str # PyNone
ValidSettings ==
    /\ Len(args.delimiter) = 1
    /\ QuoteOn => (Len(args.quote_str.s) = 1 /\ args.quote_str.s # args.delimiter)

\* A piece that spells exactly one token under the Schema's quote setting
CleanText(x) == \A i \in 1..Len(x) : x[i] \notin {QUOTE, DELIM, NEWLINE}
Clean(p) ==
    IF p.mode = "quoted" THEN QuoteOn ELSE CleanText(p.text)

\* The field tokens the line spells: an extra delimiter the Schema does not
\* ask for spells one more, empty, token
Written ==
    arg.fields \o (IF arg.trail /\ ~args.trailing_delimiter
                   THEN <<Piece(<<>>, "plain")>> ELSE <<>>)

\* The line is made of well-formed tokens and ends as the Schema's policy asks
Legible ==
    /\ ValidSettings
    /\ args.trailing_delimiter => arg.trail
    /\ Clean(arg.tag)
    /\ \A i \in 1..Len(arg.fields) : Clean(arg.fields[i])

\* The declared line shapes with the line's tag and arity, and the first of them
DeclMatch ==
    {k \in 1..Len(args.t) :
        args.t[k].name = arg.tag.text /\ Len(args.t[k].types) = Len(Written)}
Selected == CHOOSE k \in DeclMatch : \A j \in DeclMatch : k <= j

\* The token can be a value of the declared type
Acceptable(ty, p) ==
    IF p.text = <<>> THEN ty.optional \/ ty.base = "str"
    ELSE IF ty.base = "str" THEN TRUE
    ELSE IF ty.base = "int" THEN \A i \in 1..Len(p.text) : p.text[i] \in DigitChars
    ELSE IF ty.base = "FooEnum" THEN p.text \in {<<"A">>, <<"B">>}
    ELSE p.text \in {<<"1">>, <<"2">>}

\* The value is of the declared type
Conforms(ty, v) ==
    \/ v = PyNone /\ ty.optional
    \/ ty.base = "str" /\ v.t = "str"
    \/ ty.base = "int" /\ v.t = "int"
    \/ ty.base \in EnumNames /\ v.t = "member" /\ v.c = ty.base

\* The line without the newline the caller may have left on it
Body == LineOf([arg EXCEPT !.nl = FALSE])

RECURSIVE CountDelims(_)
CountDelims(x) ==
    IF x = <<>> THEN 0 ELSE (IF x[1] = DELIM THEN 1 ELSE 0) + CountDelims(Tail(x))

\* C1: parse_first returns the tag parse_line dispatches on and returns as
\* element 0 of the record, and it returns the first token's unquoted text
\* whatever follows that token on the line.
C1_ParseFirstIsTag ==
    /\ (parsed.kind = "ok" /\ first.kind # "none")
         => first = Returned(<<parsed.rec[1]>>)
    /\ (first.kind # "none" /\ ValidSettings
          /\ (QuoteOn /\ arg.tag.mode = "plain" => arg.tag.text[1] # QUOTE))
         => first = Returned(<<PyStr(IF QuoteOn THEN arg.tag.text ELSE Spell(arg.tag))>>)

\* A quoted tag, both entry points applied, on a line with two fields
C1_Witness ==
    /\ parsed.kind = "ok" /\ first.kind = "ok"
    /\ QuoteOn /\ arg.tag.mode = "quoted" /\ Len(arg.fields) = 2

\* C2: whatever calls came before, parse_line gives the outcome a freshly
\* constructed Schema gives for the same line.
C2_NoHiddenState ==
    parsed.kind # "none"
      => parsed = Schema_parse_line(FreshParser, FreshConversions, TheLine).out

\* An enum line parsed after earlier calls have changed the conversion map
C2_Witness ==
    /\ parsed.kind = "ok"
    /\ \E i \in 1..Len(parsed.rec) : parsed.rec[i].t = "member"
    /\ enum_conversions # FreshConversions

\* C3: once constructed, no call changes any attribute of the Schema.
C3_SchemaUnchanged ==
    constructed
      => /\ lines = FreshLines
         /\ parser = FreshParser
         /\ enum_conversions = FreshConversions

\* C4: every successfully parsed line comes back with its enum positions
\* mapped to the members of that value, None left as None, every other
\* position unchanged; the mapping never fails.
C4_EnumMapping ==
    LET core == NativeParseLine(parser, TheLine)
    IN (parsed.kind # "none" /\ core.ok)
         => /\ parsed.kind = "ok"
            /\ Len(parsed.rec) = Len(core.rec)
            /\ LET fs == lines[Dispatch(parser, Tokenize(parser, TheLine).toks)].fields
               IN \A i \in 1..Len(fs) :
                    IF fs[i].kind \notin {"STR_ENUM", "INT_ENUM"} \/ core.rec[i + 1] = PyNone
                    THEN parsed.rec[i + 1] = core.rec[i + 1]
                    ELSE /\ parsed.rec[i + 1].t = "member"
                         /\ parsed.rec[i + 1].c = fs[i].cls
                         /\ EnumClass(fs[i].cls)[parsed.rec[i + 1].m] = core.rec[i + 1]

\* C5: the line shape is the first declared one with the line's tag and its
\* number of field tokens; with none, parse_line fails with a LineParseError.
C5_Dispatch ==
    (parsed.kind # "none" /\ Legible)
      => IF DeclMatch = {}
         THEN parsed.kind = "LineParseError" /\ parsed.cause = "dispatch"
         ELSE LET ty == args.t[Selected].types
              IN /\ parsed.kind = "ok"
                      => /\ parsed.rec[1] = PyStr(arg.tag.text)
                         /\ Len(parsed.rec) = Len(Written) + 1
                         /\ \A i \in 1..Len(ty) : Conforms(ty[i], parsed.rec[i + 1])
                 /\ parsed.kind = "LineParseError"
                      => /\ parsed.cause = "coercion"
                         /\ \E i \in 1..Len(ty) : ~Acceptable(ty[i], Written[i])

\* Two declared shapes match and the first one's types are in the record
C5_Witness ==
    /\ Legible /\ Cardinality(DeclMatch) = 2 /\ parsed.kind = "ok"
    /\ Len(parsed.rec) = 2 /\ parsed.rec[2].t = "int"

\* C6: with trailing_delimiter, a line is accepted only if it ends with the
\* extra delimiter, which is not counted as a field token; without it the
\* parse fails with a LineParseError.
C6_TrailingDelimiter ==
    (parsed.kind # "none" /\ ValidSettings /\ args.trailing_delimiter)
      => /\ parsed.kind = "ok" => Body[Len(Body)] = DELIM
         /\ (parsed.kind = "ok" /\ CleanText(SelectSeq(Body, LAMBDA ch : ch # DELIM)))
              => Len(parsed.rec) = CountDelims(Body)
         /\ Body[Len(Body)] # DELIM => parsed.kind = "LineParseError"
         /\ (args.t = <<A(<<Opt("int"), Opt("int")>>)>> /\ Body = <<"a", "|", "|", "|">>)
              => parsed = Returned(<<PyStr(<<"a">>), PyNone, PyNone>>)
         /\ (args.t = <<A(<<T("int")>>)>> /\ TheLine = <<"a", "|", "1", "|", NEWLINE>>)
              => parsed = Returned(<<PyStr(<<"a">>), PyInt(1)>>)

\* "a|||" parsed by the Schema of two optional fields
C6_Witness ==
    /\ args.trailing_delimiter /\ Len(args.t[1].types) = 2
    /\ Body = <<"a", "|", "|", "|">> /\ parsed.kind = "ok"

\* The tag and the field tokens as written
Pieces == <<arg.tag>> \o arg.fields

\* One token is a lone quote character and nothing else on the line is quoted
OneOpenQuote ==
    \E j \in 1..Len(Pieces) :
        /\ Pieces[j] = Piece(<<QUOTE>>, "plain")
        /\ \A i \in 1..Len(Pieces) :
             i # j => (Pieces[i].mode = "plain" /\ CleanText(Pieces[i].text))

\* C7: with a quote character, a quoted token runs to its closing quote, a
\* doubled quote inside it is one quote character and delimiters inside it do
\* not split; unquoted tokens are taken verbatim; both spellings of a text
\* give the same value; a quote that is never closed fails.
C7_QuotedTokens ==
    (parsed.kind # "none" /\ ValidSettings /\ QuoteOn)
      => /\ (/\ Legible
             /\ DeclMatch # {}
             /\ \A i \in 1..Len(Written) : args.t[Selected].types[i] = T("str"))
              => parsed = Returned(<<PyStr(arg.tag.text)>>
                                     \o [i \in 1..Len(Written) |-> PyStr(Written[i].text)])
         /\ OneOpenQuote
              => parsed.kind = "LineParseError" /\ parsed.cause = "tokenization"

\* A quoted token holding the delimiter next to an unquoted one
C7_Witness ==
    /\ QuoteOn /\ parsed.kind = "ok"
    /\ arg.fields = <<Piece(<<DELIM>>, "quoted"), Piece(<<"A">>, "plain")>>
    /\ parsed.rec[2] = PyStr(<<DELIM>>)

\* No declared line shape with the line's tag has an enum field
NoEnumUnderTag ==
    \A k \in 1..Len(args.t) :
        args.t[k].name = arg.tag.text
          => \A i \in 1..Len(args.t[k].types) : args.t[k].types[i].base \notin EnumNames

C9_SingleErrorKind ==
    \A o \in {parsed, first} :
        o.kind \notin {"none", "ok"} => (o.kind = "LineParseError" /\ o.line = Body)

\* C10: a Schema with a malformed delimiter or quote is never constructed,
\* and no call reports the malformed setting.
C10_EagerValidation ==
    /\ constructed => ValidSettings
    /\ parsed.cause # "config"

\* The Decimal field the caller declared and the token the line spells for it
DeclaredDecimal == args.t[1].types[1]
Places == IF DeclaredDecimal.ann = NoField THEN PyNone
          ELSE DeclaredDecimal.ann.round_decimal_places
Lowest == IF DeclaredDecimal.ann = NoField THEN PyNone ELSE DeclaredDecimal.ann.min_value
Highest == IF DeclaredDecimal.ann = NoField THEN PyNone ELSE DeclaredDecimal.ann.max_value
Number == arg.fields[1].text

IsNumber(x) == \A i \in 1..Len(x) : x[i] \in DigitChars \cup {".", "-"}

\* How many digits the text has after its point
FracLen(x) ==
    IF \E i \in 1..Len(x) : x[i] = "." THEN Len(x) - (CHOOSE i \in 1..Len(x) : x[i] = ".")
    ELSE 0

Abs(k) == IF k < 0 THEN 0 - k ELSE k

\* Every quantity is compared as an integer count of 10^-Scale
Scale ==
    LET k == IF Places = PyNone THEN 0 ELSE Places.n
        m == IF FracLen(Number) > k THEN FracLen(Number) ELSE k
    IN IF m > 1 THEN m ELSE 1

TextScaled(x) ==
    LET mag == DigitsValue(SelectSeq(x, LAMBDA ch : ch \in DigitChars)) * 10^(Scale - FracLen(x))
    IN IF x[1] = "-" THEN 0 - mag ELSE mag

DecimalScaled(d) == d.n * 10^(Scale + d.e)

\* r units is a multiple of the unit nearest to x, the farther from zero of
\* the two when x lies half-way between them
Nearest(r, x, unit) ==
    /\ 2 * Abs(r * unit - x) <= unit
    /\ 2 * Abs(r * unit - x) = unit => Abs(r * unit) > Abs(x)

\* The value the claim promises for the token
Promised ==
    LET x == TextScaled(Number)
        unit == IF Places = PyNone THEN 1 ELSE 10^(Scale - Places.n)
    IN unit * (CHOOSE r \in {(x \div unit) + j : j \in -1..1} : Nearest(r, x, unit))

WithinBounds ==
    /\ Lowest # PyNone => DecimalScaled(Lowest) <= Promised
    /\ Highest # PyNone => Promised <= DecimalScaled(Highest)

\* C11: a decimal token is rounded to round_decimal_places fractional
\* digits, a half going away from zero; the rounded value is the one
\* returned and the one held against min_value and max_value: within the
\* bounds, a bound included, it is returned, beyond them parse_line raises
\* LineParseError.  "2.00001" at 3 places gives 2.000.
C11_DecimalRounding ==
    (constructed /\ parsed.kind # "none" /\ DeclaredDecimal.base = "Decimal" /\ IsNumber(Number))
        => /\ IF WithinBounds
              THEN /\ parsed.kind = "ok"
                   /\ parsed.rec[2].t = "decimal"
                   /\ DecimalScaled(parsed.rec[2]) = Promised
                   /\ Places # PyNone => 0 - parsed.rec[2].e <= Places.n
              ELSE parsed.kind = "LineParseError" /\ parsed.cause = "coercion"
           /\ (Number = <<"2", ".", "0", "0", "0", "0", "1">> /\ Places = PyInt(3)
                   /\ Lowest = PyNone /\ Highest = PyNone)
                => parsed = Returned(<<PyStr(<<"a">>), PyDecimal(2000, -3)>>)

\* "a|1.45" at one place with min_value 1.5: the half goes up to 1.5, the
\* bound itself, and the record is returned
C11_Witness ==
    /\ Number = <<"1", ".", "4", "5">>
    /\ Places = PyInt(1)
    /\ Lowest = PyDecimal(15, -1)
    /\ parsed = Returned(<<PyStr(<<"a">>), PyDecimal(15, -1)>>)

====
